---------------------------- MODULE Spec2Model ----------------------------
(***************************************************************************)
(* A model of the two scripts of the inventory repository:                 *)
(*   src/generate_organization.py          (the library organizer)         *)
(*   src/frontend/scripts/selenium-screenshot.py  (the screenshot helper)  *)
(*                                                                         *)
(* Conventions.                                                            *)
(*  - A Python str is a tuple of one-character strings, so that lower()    *)
(*    and the substring test `word in combined` are computed, not assumed. *)
(*  - A Python value that may be None is a record [isNone, s] (text) or    *)
(*    [isNone, n] (integer).                                               *)
(*  - A dict read from a CSV row is a function from its keys to such       *)
(*    values; dict.get(k, d) is Get(item, k, d).                           *)
(*  - Widths are held in quarter inches: every width the program produces  *)
(*    (0.5, 0.75, 1.0, 1.25, 1.5, 2.0) and every sum of them is an exact   *)
(*    multiple of 0.25 in binary floating point.                           *)
(*  - A utilization is the exact fraction [num, den] of the float          *)
(*    (total_width / available_width) * 100.                               *)
(***************************************************************************)
EXTENDS Integers, Sequences, FiniteSets, TLC

VARIABLES
    pc,                 \* position of the running script or function
    \* estimate_book_width called on its own
    pages, pages_q,     \* the arguments of one call, and of a second call
    width, width_q,     \* the values returned
    \* selenium-screenshot.py
    argv,               \* sys.argv: [argc, wait], wait being sys.argv[3] when given
    wait_seconds,       \* capture_screenshot's wait_seconds
    driver,             \* capture_screenshot's local: "None" or "session"
    browser_open,       \* a browser process created by webdriver.Chrome is alive
    file_written,       \* the image file was written at output_path
    success,            \* what capture_screenshot returned: "unset", "True", "False"
    exit_code,          \* the exit status of the process, Unset while it runs
    trace,              \* the browser and clock operations performed, in order
    slept,              \* the seconds time.sleep was called with, Unset before it
    \* a categorizer called on its own
    cat_args,           \* [func, utilization_data, title, tags, group, description]
    cat_result,         \* the (shelf, row) returned, or the exception raised
    \* generate_organization.py: main from the ingested items on, and
    \* calculate_space_usage called on its own
    entry,              \* "main", or "direct" for a call of calculate_space_usage(items)
    all_items,          \* main's all_items
    items,              \* calculate_space_usage's items
    categorizer_func,   \* calculate_space_usage's categorizer_func
    item_idx,           \* the position of `for item in items`
    shelf_usage,        \* calculate_space_usage's shelf_usage
    shelf_idx,          \* the position of `for shelf_id in shelf_usage`
    over_capacity,      \* iterative_balance's over_capacity
    status_class,       \* generate_html: the class of each shelf's banner
    \* generate_organization.py: main's loop over the CSV files
    csv_files,          \* main's csv_files: the rows each file holds
    file_idx,           \* the position of `for csv_file in csv_files`
    row_pos,            \* parse_csv_file: the rows the reader has yielded
    parsed_items,       \* parse_csv_file's items
    returned,           \* what parse_csv_file returned for each file so far
    error_log           \* the files for which "Error reading" was printed

widthVars == <<pages, pages_q, width, width_q>>
shotVars == <<argv, wait_seconds, driver, browser_open, file_written, success,
              exit_code, trace, slept>>
catVars == <<cat_args, cat_result>>
spaceVars == <<entry, all_items, items, categorizer_func, item_idx, shelf_usage,
               shelf_idx, over_capacity, status_class>>
ingestVars == <<csv_files, file_idx, row_pos, parsed_items, returned, error_log>>
vars == <<pc, widthVars, shotVars, catVars, spaceVars, ingestVars>>

\* The variables a script leaves alone
notWidth == <<shotVars, catVars, spaceVars, ingestVars>>
notShot == <<widthVars, catVars, spaceVars, ingestVars>>
notCat == <<widthVars, shotVars, spaceVars, ingestVars>>
notSpace == <<widthVars, shotVars, catVars, ingestVars>>
\* The loop over the files writes all_items and nothing else of main's
notIngest == <<widthVars, shotVars, catVars, entry, items, categorizer_func, item_idx,
               shelf_usage, shelf_idx, over_capacity, status_class>>

---------------------------------------------------------------------------
(* Python values *)

NoneStr == [isNone |-> TRUE, s |-> <<>>]
Str(s) == [isNone |-> FALSE, s |-> s]
NoneInt == [isNone |-> TRUE, n |-> 0]
Int_(n) == [isNone |-> FALSE, n |-> n]

\* A value not yet computed: no width and no exit status is negative.
Unset == 0 - 1

---------------------------------------------------------------------------
(* Text *)

UpperCase == <<"A","B","C","D","E","F","G","H","I","J","K","L","M","N","O","P","Q","R","S","T","U","V","W","X","Y","Z">>
LowerCase == <<"a","b","c","d","e","f","g","h","i","j","k","l","m","n","o","p","q","r","s","t","u","v","w","x","y","z">>
Digits == <<"0","1","2","3","4","5","6","7","8","9">>

IndexIn(c, alphabet) ==
    IF \E k \in 1..Len(alphabet) : alphabet[k] = c
    THEN CHOOSE k \in 1..Len(alphabet) : alphabet[k] = c
    ELSE 0

\* str.lower(), on ASCII text
LowerChar(c) == IF IndexIn(c, UpperCase) > 0 THEN LowerCase[IndexIn(c, UpperCase)] ELSE c
Lower(s) == [k \in 1..Len(s) |-> LowerChar(s[k])]

\* `word in text`: substring containment
Contains(text, word) ==
    \E k \in 0..(Len(text) - Len(word)) : SubSeq(text, k + 1, k + Len(word)) = word

\* any(word in text for word in words)
AnyIn(words, text) == \E k \in 1..Len(words) : Contains(text, words[k])

\* str.strip(), of blanks
RECURSIVE LStrip(_)
LStrip(s) == IF s # <<>> /\ Head(s) = " " THEN LStrip(Tail(s)) ELSE s
RECURSIVE RStrip(_)
RStrip(s) == IF s # <<>> /\ s[Len(s)] = " " THEN RStrip(SubSeq(s, 1, Len(s) - 1)) ELSE s
Strip(s) == RStrip(LStrip(s))

\* The value of a run of decimal digits in which single underscores may
\* separate digits; -1 when the text is not such a run.
RECURSIVE DigitsValue(_, _, _)
DigitsValue(s, acc, afterDigit) ==
    IF s = <<>> THEN (IF afterDigit THEN acc ELSE -1)
    ELSE IF Head(s) = "_" THEN
        (IF afterDigit /\ Len(s) > 1 THEN DigitsValue(Tail(s), acc, FALSE) ELSE -1)
    ELSE IF IndexIn(Head(s), Digits) > 0 THEN
        DigitsValue(Tail(s), acc * 10 + (IndexIn(Head(s), Digits) - 1), TRUE)
    ELSE -1

\* int(text): [ok, n]; ok is FALSE where int raises ValueError
ParseInt(text) ==
    LET body == Strip(text)
        signed == body # <<>> /\ Head(body) \in {"+", "-"}
        digits == IF signed THEN Tail(body) ELSE body
        v == DigitsValue(digits, 0, FALSE)
    IN  IF v < 0 THEN [ok |-> FALSE, n |-> 0]
        ELSE [ok |-> TRUE, n |-> IF signed /\ Head(body) = "-" THEN 0 - v ELSE v]

---------------------------------------------------------------------------
(* estimate_book_width: quarter inches for a page count *)

\* Each band closed below instead of above.
estimate_book_width_open_bands(p) ==
    IF p.isNone \/ p.n = 0 \/ p.n <= 0 THEN 4
    ELSE IF p.n < 100 THEN 2
    ELSE IF p.n < 200 THEN 3
    ELSE IF p.n < 300 THEN 4
    ELSE IF p.n < 500 THEN 5
    ELSE IF p.n < 750 THEN 6
    ELSE 8

\* The widths of the two thickest bounded bands exchanged.
estimate_book_width_swapped_bands(p) ==
    IF p.isNone \/ p.n = 0 \/ p.n <= 0 THEN 4
    ELSE IF p.n <= 100 THEN 2
    ELSE IF p.n <= 200 THEN 3
    ELSE IF p.n <= 300 THEN 4
    ELSE IF p.n <= 500 THEN 6
    ELSE IF p.n <= 750 THEN 5
    ELSE 8

\* The 0.75 inch band reaching up to 300 pages.
estimate_book_width_wide_second_band(p) ==
    IF p.isNone \/ p.n = 0 \/ p.n <= 0 THEN 4
    ELSE IF p.n <= 100 THEN 2
    ELSE IF p.n <= 300 THEN 3
    ELSE IF p.n <= 500 THEN 5
    ELSE IF p.n <= 750 THEN 6
    ELSE 8

\* `not pages` holds of None and of 0.
estimate_book_width(p) ==
    IF p.isNone \/ p.n = 0 \/ p.n <= 0 THEN 4
    ELSE IF p.n <= 100 THEN 2
    ELSE IF p.n <= 200 THEN 3
    ELSE IF p.n <= 300 THEN 4
    ELSE IF p.n <= 500 THEN 5
    ELSE IF p.n <= 750 THEN 6
    ELSE 8

---------------------------------------------------------------------------
(* Bounds of the page counts tried *)

MaxPages == 760
MinPages == 3

PageCounts == (0 - MinPages)..MaxPages
PageArgs == {NoneInt} \cup {Int_(n) : n \in PageCounts}

---------------------------------------------------------------------------
(* Variables of a script that is not the one running *)

IdleShot ==
    /\ argv = [argc |-> 0, wait |-> NoneStr]
    /\ wait_seconds = 0
    /\ driver = "None"
    /\ browser_open = FALSE
    /\ file_written = FALSE
    /\ success = "unset"
    /\ exit_code = Unset
    /\ trace = <<>>
    /\ slept = Unset

NoResult == [shelf |-> "unset", row |-> 0]

IdleCat ==
    /\ cat_args = [func |-> "None", utilization_data |-> <<>>, title |-> NoneStr,
                   tags |-> NoneStr, group |-> NoneStr, description |-> NoneStr]
    /\ cat_result = NoResult

IdleSpace ==
    /\ entry = "None"
    /\ all_items = <<>>
    /\ items = <<>>
    /\ categorizer_func = "None"
    /\ item_idx = 0
    /\ shelf_usage = <<>>
    /\ shelf_idx = 0
    /\ over_capacity = <<>>
    /\ status_class = <<>>

IdleIngest ==
    /\ csv_files = <<>>
    /\ file_idx = 0
    /\ row_pos = 0
    /\ parsed_items = <<>>
    /\ returned = <<>>
    /\ error_log = <<>>

---------------------------------------------------------------------------
(* A call of estimate_book_width, and two calls side by side *)

IdleWidth ==
    /\ pages = NoneInt
    /\ pages_q = NoneInt
    /\ width = Unset
    /\ width_q = Unset

WidthInit ==
    /\ pc = "width_call"
    /\ pages \in PageArgs
    /\ pages_q = NoneInt
    /\ width = Unset
    /\ width_q = Unset
    /\ IdleShot
    /\ IdleCat
    /\ IdleSpace
    /\ IdleIngest

EstimateWidth ==
    /\ pc = "width_call"
    /\ width' = estimate_book_width(pages)
    /\ pc' = "width_done"
    /\ UNCHANGED <<pages, pages_q, width_q, notWidth>>

WidthNext == EstimateWidth

SpecWidth == WidthInit /\ [][WidthNext]_vars

PairInit ==
    /\ pc = "pair_call"
    /\ pages \in {Int_(n) : n \in PageCounts}
    /\ pages_q \in {Int_(n) : n \in PageCounts}
    /\ pages.n <= pages_q.n
    /\ width = Unset
    /\ width_q = Unset
    /\ IdleShot
    /\ IdleCat
    /\ IdleSpace
    /\ IdleIngest

EstimatePair ==
    /\ pc = "pair_call"
    /\ width' = estimate_book_width(pages)
    /\ width_q' = estimate_book_width(pages_q)
    /\ pc' = "pair_done"
    /\ UNCHANGED <<pages, pages_q, notWidth>>

PairNext == EstimatePair

SpecWidthPair == PairInit /\ [][PairNext]_vars

---------------------------------------------------------------------------
(* The shelves *)

SHELF_DIMENSIONS ==
    [ office_a |-> [rows |-> 5, width |-> 32, depth |-> 26],
      office_b |-> [rows |-> 4, width |-> 32, depth |-> 26],
      dining   |-> [rows |-> 3, width |-> 24, depth |-> 24],
      hallway  |-> [rows |-> 2, width |-> 16, depth |-> 16],
      crate_h  |-> [rows |-> 1, width |-> 32, depth |-> 12],
      crate_v  |-> [rows |-> 1, width |-> 12, depth |-> 32] ]

\* The order in which a loop over SHELF_DIMENSIONS (or ORGANIZATION) visits the shelves
ShelfOrder == <<"office_a", "office_b", "dining", "hallway", "crate_h", "crate_v">>

---------------------------------------------------------------------------
(* The categorizers. A categorizer returns Dest(shelf, row); title.lower()  *)
(* on a title that is None raises AttributeError.                          *)

Dest(shelf, row) == [shelf |-> shelf, row |-> row]
AttributeError == [shelf |-> "AttributeError", row |-> 0]

\* x.lower() if x else ""
LowerOrEmpty(x) == IF x.isNone \/ x.s = <<>> THEN <<>> ELSE Lower(x.s)

\* f"{title_lower} {tags_lower} {group_lower} {desc_lower}", title not None
Combined(title, tags, group, description) ==
    Lower(title.s) \o <<" ">> \o LowerOrEmpty(tags) \o <<" ">>
        \o LowerOrEmpty(group) \o <<" ">> \o LowerOrEmpty(description)

\* The keyword lists of categorize_book, in the order of its rules
CORE_LANGUAGE == << <<"g","e","n","k","i">>, <<"t","o","b","i","r","a">>, <<"i","n","t","e","g","r","a","t","e","d"," ","c","h","i","n","e","s","e">>, <<"k","a","n","j","i"," ","f","o","r"," ","i","n","t","e","r","n","a","t","i","o","n","a","l">> >>
MATH_CS == << <<"a","l","g","o","r","i","t","h","m","s">>, <<"c","l","e","a","n"," ","c","o","d","e">>, <<"p","r","o","g","r","a","m","m","i","n","g"," ","l","a","n","g","u","a","g","e">>, <<"k","n","u","t","h">>, <<"a","r","t"," ","o","f"," ","c","o","m","p","u","t","e","r">> >>
CORE_SCIENCE == << <<"p","h","y","s","i","c","s">>, <<"c","h","e","m","i","s","t","r","y">> >>
CORE_PHILOSOPHY == << <<"k","a","n","t">>, <<"g","r","o","u","n","d","w","o","r","k">>, <<"n","i","e","t","z","s","c","h","e">>, <<"r","e","p","u","b","l","i","c">>, <<"a","n","a","l","e","c","t","s">> >>
PROFESSIONAL == << <<"w","r","i","t","e","r","'","s"," ","r","e","f","e","r","e","n","c","e">>, <<"w","r","i","t","i","n","g">>, <<"p","r","o","f","e","s","s","i","o","n","a","l">> >>
LANGUAGES == << <<"j","a","p","a","n","e","s","e">>, <<"c","h","i","n","e","s","e">>, <<"k","o","r","e","a","n">>, <<"l","a","n","g","u","a","g","e">>, <<"d","i","c","t","i","o","n","a","r","y">>, <<"g","r","a","m","m","a","r">> >>
HISTORY == << <<"h","i","s","t","o","r","y">>, <<"h","i","s","t","o","r","i","c","a","l">>, <<"r","e","v","o","l","u","t","i","o","n">>, <<"w","a","r">>, <<"a","n","c","i","e","n","t">>, <<"m","e","d","i","e","v","a","l">> >>
LITERATURE == << <<"d","o","v","e","r">>, <<"c","l","a","s","s","i","c","s">>, <<"p","o","e","t","r","y">>, <<"s","h","a","k","e","s","p","e","a","r","e">>, <<"l","i","t","e","r","a","t","u","r","e">>, <<"f","i","c","t","i","o","n">>, <<"n","o","v","e","l">> >>
MATH_REFERENCE == << <<"m","a","t","h","e","m","a","t","i","c","s">>, <<"m","a","t","h">>, <<"d","o","v","e","r">>, <<"l","o","g","i","c">>, <<"s","c","i","e","n","c","e">>, <<"r","e","f","e","r","e","n","c","e">> >>
GAMES == << <<"g","a","m","e">>, <<"g","a","m","i","n","g">>, <<"r","p","g">>, <<"d","&","d">>, <<"s","t","r","a","t","e","g","y">>, <<"c","h","e","s","s">> >>
PHILOSOPHY == << <<"p","h","i","l","o","s","o","p","h","y">>, <<"p","o","l","i","t","i","c","a","l">>, <<"e","t","h","i","c","s">>, <<"t","a","o">> >>
ACADEMIC == << <<"t","e","x","t","b","o","o","k">>, <<"a","c","a","d","e","m","i","c">>, <<"u","n","i","v","e","r","s","i","t","y">> >>
ESSAYS == << <<"u","n","c","l","e"," ","j","o","h","n">>, <<"e","s","s","a","y">>, <<"a","n","t","h","o","l","o","g","y">>, <<"c","o","l","l","e","c","t","i","o","n">> >>
COOKING == << <<"c","o","o","k","i","n","g">>, <<"c","o","o","k">>, <<"f","o","o","d">>, <<"r","e","c","i","p","e">>, <<"k","i","t","c","h","e","n">>, <<"c","u","l","i","n","a","r","y">> >>
COOKING_ASIAN == << <<"a","s","i","a","n">>, <<"j","a","p","a","n","e","s","e">>, <<"c","h","i","n","e","s","e">>, <<"s","u","s","h","i">>, <<"w","o","k">> >>
COOKING_GLOBAL == << <<"b","i","t","t","m","a","n">>, <<"i","n","t","e","r","n","a","t","i","o","n","a","l">>, <<"g","l","o","b","a","l">> >>

\* lines 103-109: the destination of a language book
LanguageRow(combined) ==
    IF Contains(combined, <<"j","a","p","a","n","e","s","e">>) \/ Contains(combined, <<"k","a","n","j","i">>)
        THEN Dest("dining", 1)
    ELSE IF Contains(combined, <<"c","h","i","n","e","s","e">>)
        THEN Dest("dining", 2)
    ELSE Dest("dining", 3)

\* lines 139-145: the destination of a cookery book
CookingRow(combined) ==
    IF AnyIn(COOKING_ASIAN, combined) THEN Dest("dining", 1)
    ELSE IF AnyIn(COOKING_GLOBAL, combined) THEN Dest("dining", 2)
    ELSE Dest("dining", 3)

\* categorize_book, lines 82-148, on the combined text
categorize_combined(combined) ==
    IF AnyIn(CORE_LANGUAGE, combined) THEN Dest("office_a", 1)
    ELSE IF AnyIn(MATH_CS, combined) THEN Dest("office_a", 2)
    ELSE IF AnyIn(CORE_SCIENCE, combined) /\ Contains(combined, <<"t","e","x","t","b","o","o","k">>)
        THEN Dest("office_a", 3)
    ELSE IF AnyIn(CORE_PHILOSOPHY, combined) THEN Dest("office_a", 4)
    ELSE IF AnyIn(PROFESSIONAL, combined) THEN Dest("office_a", 5)
    ELSE IF AnyIn(LANGUAGES, combined) /\ ~Contains(combined, <<"c","o","o","k","i","n","g">>)
        THEN LanguageRow(combined)
    ELSE IF AnyIn(HISTORY, combined) THEN Dest("hallway", 1)
    ELSE IF AnyIn(LITERATURE, combined) THEN Dest("hallway", 2)
    ELSE IF AnyIn(MATH_REFERENCE, combined) THEN Dest("crate_v", 1)
    ELSE IF AnyIn(GAMES, combined) THEN Dest("office_b", 4)
    ELSE IF AnyIn(PHILOSOPHY, combined) THEN Dest("office_b", 1)
    ELSE IF AnyIn(ACADEMIC, combined) THEN Dest("office_b", 2)
    ELSE IF AnyIn(ESSAYS, combined) THEN Dest("office_b", 3)
    ELSE IF AnyIn(COOKING, combined) THEN CookingRow(combined)
    ELSE Dest("crate_h", 1)

\* categorize_book, lines 73-148
categorize_book(title, tags, group, description) ==
    IF title.isNone THEN AttributeError
    ELSE categorize_combined(Combined(title, tags, group, description))

\* balanced_categorize_book, lines 321-367, on the combined text
balanced_combined(combined) ==
    IF AnyIn(<< <<"g","e","n","k","i"," ","i">>, <<"g","e","n","k","i"," ","i","i">>, <<"t","o","b","i","r","a">>, <<"c","l","e","a","n"," ","c","o","d","e">> >>, combined)
        THEN Dest("office_a", 1)
    ELSE IF AnyIn(<< <<"a","l","g","o","r","i","t","h","m","s">>, <<"a","r","t"," ","o","f"," ","c","o","m","p","u","t","e","r">>, <<"p","r","o","g","r","a","m","m","i","n","g"," ","l","a","n","g","u","a","g","e">> >>, combined)
        THEN Dest("office_a", 2)
    ELSE IF AnyIn(<< <<"p","h","y","s","i","c","s">>, <<"c","h","e","m","i","s","t","r","y">> >>, combined) /\ Contains(combined, <<"t","e","x","t","b","o","o","k">>)
        THEN Dest("office_a", 3)
    ELSE IF AnyIn(<< <<"k","a","n","t">>, <<"g","r","o","u","n","d","w","o","r","k">>, <<"r","e","p","u","b","l","i","c">> >>, combined)
        THEN Dest("office_a", 4)
    ELSE IF AnyIn(<< <<"w","r","i","t","e","r","'","s"," ","r","e","f","e","r","e","n","c","e">>, <<"w","r","i","t","i","n","g">> >>, combined)
        THEN Dest("office_a", 5)
    ELSE IF AnyIn(<< <<"p","r","o","g","r","a","m","m","i","n","g">>, <<"c","o","m","p","u","t","e","r">>, <<"s","o","f","t","w","a","r","e">>, <<"m","a","t","h">> >>, combined)
        THEN Dest("office_b", 1)
    ELSE IF AnyIn(<< <<"p","h","i","l","o","s","o","p","h","y">>, <<"p","o","l","i","t","i","c","a","l">>, <<"e","t","h","i","c","s">> >>, combined)
        THEN Dest("office_b", 2)
    ELSE IF AnyIn(<< <<"r","e","f","e","r","e","n","c","e">>, <<"t","e","x","t","b","o","o","k">>, <<"a","c","a","d","e","m","i","c">> >>, combined)
        THEN Dest("office_b", 3)
    ELSE IF AnyIn(<< <<"g","a","m","e">>, <<"g","a","m","i","n","g">>, <<"r","p","g">>, <<"c","h","e","s","s">>, <<"s","t","r","a","t","e","g","y">> >>, combined)
        THEN Dest("office_b", 4)
    ELSE IF AnyIn(<< <<"c","o","o","k","i","n","g">>, <<"c","o","o","k">>, <<"f","o","o","d">>, <<"r","e","c","i","p","e">>, <<"k","i","t","c","h","e","n">> >>, combined)
        THEN Dest("dining", 1)
    ELSE IF AnyIn(<< <<"j","a","p","a","n","e","s","e">>, <<"k","a","n","j","i">> >>, combined) /\ ~Contains(combined, <<"c","o","o","k","i","n","g">>)
        THEN Dest("dining", 2)
    ELSE IF AnyIn(<< <<"c","h","i","n","e","s","e">>, <<"k","o","r","e","a","n">>, <<"l","a","n","g","u","a","g","e">> >>, combined) /\ ~Contains(combined, <<"c","o","o","k","i","n","g">>)
        THEN Dest("dining", 3)
    ELSE IF AnyIn(<< <<"f","i","c","t","i","o","n">>, <<"n","o","v","e","l">>, <<"p","o","e","t","r","y">> >>, combined)
        THEN Dest("hallway", 1)
    ELSE IF AnyIn(<< <<"u","n","c","l","e"," ","j","o","h","n">>, <<"e","s","s","a","y">>, <<"a","n","t","h","o","l","o","g","y">> >>, combined)
        THEN Dest("hallway", 2)
    ELSE IF AnyIn(<< <<"h","i","s","t","o","r","y">>, <<"h","i","s","t","o","r","i","c","a","l">>, <<"w","a","r">>, <<"r","e","v","o","l","u","t","i","o","n">> >>, combined)
        THEN Dest("crate_h", 1)
    ELSE IF AnyIn(<< <<"d","o","v","e","r">>, <<"c","l","a","s","s","i","c","s">>, <<"l","i","t","e","r","a","t","u","r","e">> >>, combined) /\ ~Contains(combined, <<"j","a","p","a","n","e","s","e">>)
        THEN Dest("crate_v", 1)
    ELSE Dest("office_b", 2)

\* balanced_categorize_book, lines 312-367
balanced_categorize_book(title, tags, group, description) ==
    IF title.isNone THEN AttributeError
    ELSE balanced_combined(Combined(title, tags, group, description))

---------------------------------------------------------------------------
(* create_adaptive_categorizer. utilization_data, a dict from shelf ids to  *)
(* dicts that hold a 'utilization', is the sequence of its entries          *)
(* [shelf, utilization], the utilization an exact fraction.                 *)

\* utilization_data.get(shelf_id, {}).get('utilization', 0)
UtilizationOf(utilization_data, shelf_id) ==
    IF \E k \in 1..Len(utilization_data) : utilization_data[k].shelf = shelf_id
    THEN utilization_data[CHOOSE k \in 1..Len(utilization_data) :
                              utilization_data[k].shelf = shelf_id].utilization
    ELSE [num |-> 0, den |-> 1]

\* u < k for a whole number k, and u < v
Below(u, k) == u.num < k * u.den
Less(u, v) == u.num * v.den < v.num * u.den

\* lines 234-236 and 239-241: the first pair of the list whose shelf is under
\* the limit, as a list of one pair; the empty list when there is none
RECURSIVE FirstUnder(_, _, _)
FirstUnder(utilization_data, shelves, limit) ==
    IF shelves = <<>> THEN <<>>
    ELSE IF Below(UtilizationOf(utilization_data, Head(shelves).shelf), limit)
        THEN <<Head(shelves)>>
    ELSE FirstUnder(utilization_data, Tail(shelves), limit)

\* lines 244-252: row 1 of the least utilized shelf, the first such shelf in
\* the order of SHELF_DIMENSIONS
LeastUtilized(utilization_data) ==
    LET util(k) == UtilizationOf(utilization_data, ShelfOrder[k])
        best == CHOOSE k \in 1..Len(ShelfOrder) :
                    /\ \A j \in 1..Len(ShelfOrder) : ~Less(util(j), util(k))
                    /\ \A j \in 1..(k - 1) : Less(util(k), util(j))
    IN  [shelf |-> ShelfOrder[best], row |-> 1]

\* The last resort keeping the row of the first preferred pair.
find_best_shelf_keeps_row(utilization_data, preferred_shelves, fallback_shelves) ==
    IF FirstUnder(utilization_data, preferred_shelves, 85) # <<>>
        THEN FirstUnder(utilization_data, preferred_shelves, 85)[1]
    ELSE IF FirstUnder(utilization_data, fallback_shelves, 95) # <<>>
        THEN FirstUnder(utilization_data, fallback_shelves, 95)[1]
    ELSE [shelf |-> LeastUtilized(utilization_data).shelf, row |-> preferred_shelves[1].row]

\* find_best_shelf, lines 233-252; fallback_shelves is <<>> when not given
find_best_shelf(utilization_data, preferred_shelves, fallback_shelves) ==
    IF FirstUnder(utilization_data, preferred_shelves, 85) # <<>>
        THEN FirstUnder(utilization_data, preferred_shelves, 85)[1]
    ELSE IF FirstUnder(utilization_data, fallback_shelves, 95) # <<>>
        THEN FirstUnder(utilization_data, fallback_shelves, 95)[1]
    ELSE LeastUtilized(utilization_data)

\* adaptive_categorize_book, lines 254-308, on the combined text
adaptive_combined(utilization_data, combined) ==
    IF AnyIn(<< <<"g","e","n","k","i"," ","i">>, <<"g","e","n","k","i"," ","i","i">>, <<"t","o","b","i","r","a">>, <<"c","l","e","a","n"," ","c","o","d","e">>, <<"a","l","g","o","r","i","t","h","m","s">> >>, combined)
        THEN find_best_shelf(utilization_data, <<Dest("office_a", 1), Dest("office_a", 2)>>, <<Dest("office_b", 1)>>)
    ELSE IF AnyIn(<< <<"j","a","p","a","n","e","s","e">>, <<"k","a","n","j","i">> >>, combined)
            /\ AnyIn(<< <<"t","e","x","t","b","o","o","k">>, <<"d","i","c","t","i","o","n","a","r","y">>, <<"l","e","a","r","n","i","n","g">> >>, combined)
        THEN find_best_shelf(utilization_data, <<Dest("office_a", 1), Dest("dining", 1)>>, <<Dest("office_b", 3)>>)
    ELSE IF AnyIn(<< <<"c","h","i","n","e","s","e">> >>, combined)
            /\ AnyIn(<< <<"t","e","x","t","b","o","o","k">>, <<"i","n","t","e","g","r","a","t","e","d">>, <<"l","e","a","r","n","i","n","g">> >>, combined)
        THEN find_best_shelf(utilization_data, <<Dest("office_a", 1), Dest("dining", 2)>>, <<Dest("office_b", 3)>>)
    ELSE IF AnyIn(<< <<"p","r","o","g","r","a","m","m","i","n","g">>, <<"c","o","m","p","u","t","e","r">>, <<"s","o","f","t","w","a","r","e">> >>, combined)
        THEN find_best_shelf(utilization_data, <<Dest("office_a", 2), Dest("office_b", 2)>>, <<Dest("crate_v", 1)>>)
    ELSE IF AnyIn(<< <<"m","a","t","h","e","m","a","t","i","c","s">>, <<"m","a","t","h">>, <<"a","l","g","o","r","i","t","h","m","s">> >>, combined) /\ ~Contains(combined, <<"g","a","m","e">>)
        THEN find_best_shelf(utilization_data, <<Dest("office_a", 2), Dest("office_b", 2), Dest("crate_v", 1)>>, <<>>)
    ELSE IF AnyIn(<< <<"p","h","y","s","i","c","s">>, <<"c","h","e","m","i","s","t","r","y">>, <<"s","c","i","e","n","c","e">> >>, combined) /\ ~Contains(combined, <<"c","o","o","k","i","n","g">>)
        THEN find_best_shelf(utilization_data, <<Dest("office_a", 3), Dest("office_b", 2), Dest("crate_v", 1)>>, <<>>)
    ELSE IF AnyIn(<< <<"p","h","i","l","o","s","o","p","h","y">>, <<"k","a","n","t">>, <<"n","i","e","t","z","s","c","h","e">>, <<"p","l","a","t","o">> >>, combined)
        THEN find_best_shelf(utilization_data, <<Dest("office_a", 4), Dest("office_b", 1)>>, <<>>)
    ELSE IF AnyIn(<< <<"h","i","s","t","o","r","y">>, <<"h","i","s","t","o","r","i","c","a","l">>, <<"w","a","r">>, <<"r","e","v","o","l","u","t","i","o","n">> >>, combined)
        THEN find_best_shelf(utilization_data, <<Dest("office_b", 1), Dest("hallway", 1)>>, <<Dest("crate_h", 1)>>)
    ELSE IF AnyIn(<< <<"l","i","t","e","r","a","t","u","r","e">>, <<"f","i","c","t","i","o","n">>, <<"n","o","v","e","l">>, <<"p","o","e","t","r","y">>, <<"c","l","a","s","s","i","c","s">> >>, combined)
        THEN find_best_shelf(utilization_data, <<Dest("office_b", 3), Dest("hallway", 2)>>, <<Dest("crate_h", 1)>>)
    ELSE IF AnyIn(<< <<"l","a","n","g","u","a","g","e">>, <<"d","i","c","t","i","o","n","a","r","y">>, <<"g","r","a","m","m","a","r">> >>, combined) /\ ~Contains(combined, <<"c","o","o","k","i","n","g">>)
        THEN find_best_shelf(utilization_data, <<Dest("dining", 3), Dest("office_b", 3)>>, <<Dest("crate_v", 1)>>)
    ELSE IF AnyIn(<< <<"g","a","m","e">>, <<"g","a","m","i","n","g">>, <<"r","p","g">>, <<"c","h","e","s","s">>, <<"s","t","r","a","t","e","g","y">> >>, combined)
        THEN find_best_shelf(utilization_data, <<Dest("office_b", 4)>>, <<Dest("crate_h", 1)>>)
    ELSE IF AnyIn(<< <<"c","o","o","k","i","n","g">>, <<"c","o","o","k">>, <<"f","o","o","d">>, <<"r","e","c","i","p","e">>, <<"k","i","t","c","h","e","n">> >>, combined)
        THEN (IF AnyIn(<< <<"a","s","i","a","n">>, <<"j","a","p","a","n","e","s","e">>, <<"c","h","i","n","e","s","e">>, <<"s","u","s","h","i">> >>, combined)
              THEN find_best_shelf(utilization_data, <<Dest("dining", 1)>>, <<Dest("dining", 3)>>)
              ELSE find_best_shelf(utilization_data, <<Dest("dining", 2), Dest("dining", 3)>>, <<>>))
    ELSE IF AnyIn(<< <<"u","n","c","l","e"," ","j","o","h","n">>, <<"e","s","s","a","y">>, <<"a","n","t","h","o","l","o","g","y">>, <<"c","o","l","l","e","c","t","i","o","n">> >>, combined)
        THEN find_best_shelf(utilization_data, <<Dest("office_b", 3), Dest("hallway", 2)>>, <<Dest("crate_h", 1)>>)
    ELSE find_best_shelf(utilization_data, <<Dest("office_b", 1), Dest("office_b", 2), Dest("office_b", 3)>>, <<Dest("crate_h", 1)>>)

\* The function create_adaptive_categorizer(utilization_data, iteration)
\* returns, lines 224-308; iteration is not used
adaptive_categorize_book(utilization_data, title, tags, group, description) ==
    IF title.isNone THEN AttributeError
    ELSE adaptive_combined(utilization_data, Combined(title, tags, group, description))

\* categorizer_func(title, tags, group, description, item)
CallCategorizer(func, title, tags, group, description) ==
    IF func = "categorize_book"
    THEN categorize_book(title, tags, group, description)
    ELSE balanced_categorize_book(title, tags, group, description)

Categorizers == {"categorize_book", "balanced_categorize_book"}

---------------------------------------------------------------------------
(* The texts the categorizers are tried with *)

TitlePool ==
    { <<"S","o","f","t","w","a","r","e">>, <<"G","e","n","k","i"," ","I">>, <<"C","l","e","a","n">>, <<"A","L","G","O","R","I","T","H","M","S">>, <<"P","h","y","s","i","c","s">>, <<"K","A","N","T">>,
      <<"W","r","i","t","i","n","g">>, <<"K","o","r","e","a","n"," ","G","r","a","m","m","a","r">>, <<"C","h","i","n","e","s","e"," ","D","i","c","t","i","o","n","a","r","y">>,
      <<"K","a","n","j","i"," ","D","i","c","t","i","o","n","a","r","y">>, <<"J","a","p","a","n","e","s","e"," ","C","o","o","k","i","n","g">>, <<"W","a","r","r","a","n","t","y"," ","G","u","i","d","e">>,
      <<"U","n","k","n","o","w","n"," ","M","y","s","t","e","r","y"," ","N","o","v","e","l">>, <<"D","o","v","e","r"," ","M","a","t","h">>, <<"L","o","g","i","c">>, <<"C","h","e","s","s">>,
      <<"E","t","h","i","c","s">>, <<"E","s","s","a","y">>, <<"G","l","o","b","a","l"," ","C","o","o","k">>, <<"F","o","o","d">>, <<"P","l","a","i","n">>, <<>> }

TagsPool == { <<"C","o","d","e">>, <<"t","e","x","t","b","o","o","k">>, <<>> }
GroupPool == { <<"S","c","i","e","n","c","e">> }
DescriptionPool == { <<"A","n"," ","a","n","c","i","e","n","t"," ","t","a","l","e">> }

Optional(pool) == {Str(s) : s \in pool} \cup {NoneStr}

\* The utilization of every shelf at n
Uniform(n) ==
    [k \in 1..Len(ShelfOrder) |->
        [shelf |-> ShelfOrder[k], utilization |-> [num |-> n, den |-> 1]]]

\* The utilization data the adaptive categorizer is created with
UtilizationPool ==
    { <<>>, Uniform(84), Uniform(85), Uniform(94), Uniform(95),
      << [shelf |-> "office_a", utilization |-> [num |-> 339, den |-> 4]],
         [shelf |-> "office_b", utilization |-> [num |-> 100, den |-> 1]] >>,
      << [shelf |-> "office_a", utilization |-> [num |-> 120, den |-> 1]],
         [shelf |-> "office_b", utilization |-> [num |-> 96, den |-> 1]],
         [shelf |-> "dining", utilization |-> [num |-> 100, den |-> 1]],
         [shelf |-> "hallway", utilization |-> [num |-> 96, den |-> 1]],
         [shelf |-> "crate_h", utilization |-> [num |-> 125, den |-> 1]],
         [shelf |-> "crate_v", utilization |-> [num |-> 381, den |-> 4]] >> }

\* A call of categorize_book or balanced_categorize_book, or of the function
\* create_adaptive_categorizer(utilization_data, iteration) returned
CatInit ==
    /\ pc = "cat_call"
    /\ cat_args \in [func : Categorizers \cup {"adaptive_categorize_book"},
                      utilization_data : UtilizationPool, title : Optional(TitlePool),
                      tags : Optional(TagsPool), group : Optional(GroupPool),
                      description : Optional(DescriptionPool)]
    /\ cat_args.func \in Categorizers => cat_args.utilization_data = <<>>
    /\ cat_result = NoResult
    /\ IdleWidth
    /\ IdleShot
    /\ IdleSpace
    /\ IdleIngest

Categorize ==
    /\ pc = "cat_call"
    /\ cat_args.func \in Categorizers
    /\ cat_result' = CallCategorizer(cat_args.func, cat_args.title, cat_args.tags,
                                      cat_args.group, cat_args.description)
    /\ pc' = IF cat_result' = AttributeError THEN "cat_raised" ELSE "cat_done"
    /\ UNCHANGED <<cat_args, notCat>>

CategorizeAdaptive ==
    /\ pc = "cat_call"
    /\ cat_args.func = "adaptive_categorize_book"
    /\ cat_result' = adaptive_categorize_book(cat_args.utilization_data, cat_args.title,
                                               cat_args.tags, cat_args.group,
                                               cat_args.description)
    /\ pc' = IF cat_result' = AttributeError THEN "cat_raised" ELSE "cat_done"
    /\ UNCHANGED <<cat_args, notCat>>

CatNext == Categorize \/ CategorizeAdaptive

SpecCat == CatInit /\ [][CatNext]_vars

---------------------------------------------------------------------------
(* Items: the dicts csv.DictReader yields. A cell missing from a short row  *)
(* is None; a column missing from the header is a missing key.             *)

BOOK == <<"b","o","o","k">>
VIDEOGAME == <<"v","i","d","e","o","g","a","m","e">>
MUSIC == <<"m","u","s","i","c">>

\* item.get(key, default)
Get(item, key, default) == IF key \in DOMAIN item THEN item[key] ELSE default

Row(kind, title, length) ==
    [item_type |-> kind, title |-> title, creators |-> Str(<<"A","."," ","A","u","t","h","o","r">>),
     tags |-> Str(<<>>), group |-> Str(<<>>), description |-> Str(<<>>),
     length |-> length]

\* A row of a file whose header is item_type,title
NarrowRow(kind, title) == [item_type |-> kind, title |-> title]

\* lines 196-200: pages = int(item.get('length', 0) or 0), 0 on ValueError
PagesOf(item) ==
    IF "length" \notin DOMAIN item THEN 0
    ELSE IF item.length.isNone \/ item.length.s = <<>> THEN 0
    ELSE IF ParseInt(item.length.s).ok THEN ParseInt(item.length.s).n
    ELSE 0

\* The items the organizer is tried with
ItemPool ==
    { Row(Str(BOOK), Str(<<"U","n","k","n","o","w","n"," ","M","y","s","t","e","r","y"," ","N","o","v","e","l">>), Str(<<"8","0","0">>)),
      Row(Str(BOOK), Str(<<"W","a","r","r","a","n","t","y"," ","G","u","i","d","e">>), Str(<<"2","5","0">>)),
      Row(Str(BOOK), Str(<<"G","e","n","k","i"," ","I">>), Str(<<"2","5","0">>)),
      Row(Str(BOOK), Str(<<"C","l","a","s","s","i","c","s">>), Str(<<"9","0","0">>)),
      Row(Str(BOOK), Str(<<"L","o","g","i","c">>), Str(<<"1","_","0","0","0">>)),
      Row(Str(BOOK), Str(<<"P","l","a","i","n">>), Str(<<"s","o","o","n">>)),
      Row(Str(BOOK), Str(<<"E","s","s","a","y">>), NoneStr),
      Row(Str(BOOK), Str(<<"P","o","e","t","r","y">>), Str(<<>>)),
      Row(Str(BOOK), NoneStr, NoneStr),
      Row(Str(VIDEOGAME), Str(<<"C","h","e","s","s">>), Str(<<>>)),
      NarrowRow(Str(BOOK), Str(<<"F","o","o","d">>)) }

MaxItems == 2
MaxCopies == 20

\* Every list of at most MaxItems items, and every list of at most
\* MaxCopies copies of one item
ItemLists ==
    UNION {[1..n -> ItemPool] : n \in 0..MaxItems}
        \cup {[k \in 1..n |-> b] : b \in ItemPool, n \in 1..MaxCopies}

RECURSIVE SelectBooks(_)
SelectBooks(list) ==
    IF list = <<>> THEN <<>>
    ELSE IF Head(list).item_type = Str(BOOK)
        THEN <<Head(list)>> \o SelectBooks(Tail(list))
    ELSE SelectBooks(Tail(list))

---------------------------------------------------------------------------
(* Utilizations: exact fractions *)

Fraction(num, den) == [num |-> num, den |-> den]
\* u > k, u < k for a whole number k
Above(u, k) == u.num > k * u.den

---------------------------------------------------------------------------
(* calculate_space_usage, iterative_balance and the banner of generate_html *)

\* sum(row['width'] for row in rows.values()), over rows 1..n
RECURSIVE RowWidthSum(_, _)
RowWidthSum(rows, n) == IF n = 0 THEN 0 ELSE rows[n].width + RowWidthSum(rows, n - 1)

\* lines 175-184
EmptyShelves ==
    [s \in DOMAIN SHELF_DIMENSIONS |->
        [rows |-> [r \in 1..SHELF_DIMENSIONS[s].rows |-> [width |-> 0, items |-> <<>>]],
         total_width |-> 0,
         available_width |-> SHELF_DIMENSIONS[s].width * SHELF_DIMENSIONS[s].rows,
         utilization |-> Fraction(0, 1)]]

\* lines 188-194
DestinationOf(item) ==
    CallCategorizer(categorizer_func,
                    Get(item, "title", Str(<<>>)), Get(item, "tags", Str(<<>>)),
                    Get(item, "group", Str(<<>>)), Get(item, "description", Str(<<>>)))

\* shelf_usage[shelf_id]['rows'][row_num] exists
Addressable(d) ==
    /\ d.shelf \in DOMAIN SHELF_DIMENSIONS
    /\ d.row \in 1..SHELF_DIMENSIONS[d.shelf].rows

SpaceInit ==
    /\ entry \in {"main", "direct"}
    /\ pc = IF entry = "main" THEN "main_books" ELSE "csu_call"
    /\ all_items \in ItemLists
    /\ items = <<>>
    /\ categorizer_func = "None"
    /\ item_idx = 0
    /\ shelf_usage = <<>>
    /\ shelf_idx = 0
    /\ over_capacity = <<>>
    /\ status_class = <<>>
    /\ IdleWidth
    /\ IdleShot
    /\ IdleCat
    /\ IdleIngest

\* main, lines 561-567, and iterative_balance, line 374:
\* calculate_space_usage(books, balanced_categorize_book)
Main_Books ==
    /\ pc = "main_books"
    /\ items' = SelectBooks(all_items)
    /\ categorizer_func' = "balanced_categorize_book"
    /\ pc' = "csu_init"
    /\ UNCHANGED <<entry, all_items, item_idx, shelf_usage, shelf_idx, over_capacity,
                   status_class>>

\* calculate_space_usage(items), lines 168-171: categorizer_func is None
CSU_Call ==
    /\ pc = "csu_call"
    /\ items' = all_items
    /\ categorizer_func' = "categorize_book"
    /\ pc' = "csu_init"
    /\ UNCHANGED <<entry, all_items, item_idx, shelf_usage, shelf_idx, over_capacity,
                   status_class>>

\* lines 173-184
CSU_InitShelves ==
    /\ pc = "csu_init"
    /\ shelf_usage' = EmptyShelves
    /\ item_idx' = 1
    /\ pc' = "csu_items"
    /\ UNCHANGED <<entry, all_items, items, categorizer_func, shelf_idx, over_capacity,
                   status_class>>

\* lines 186-211: one book
CSU_Book ==
    /\ pc = "csu_items"
    /\ item_idx <= Len(items)
    /\ items[item_idx].item_type = Str(BOOK)
    /\ Addressable(DestinationOf(items[item_idx]))
    /\ LET item == items[item_idx]
           d == DestinationOf(item)
           page_count == PagesOf(item)
           w == estimate_book_width(Int_(page_count))
       IN  shelf_usage' =
               [shelf_usage EXCEPT ![d.shelf].rows[d.row] =
                   [width |-> @.width + w,
                    items |-> Append(@.items,
                                 [title |-> Get(item, "title", Str(<<"U","n","k","n","o","w","n">>)),
                                  author |-> Get(item, "creators", Str(<<"U","n","k","n","o","w","n">>)),
                                  pages |-> page_count, width |-> w, item |-> item_idx])]]
    /\ item_idx' = item_idx + 1
    /\ UNCHANGED <<pc, entry, all_items, items, categorizer_func, shelf_idx,
                   over_capacity, status_class>>

\* lines 186-187: an item that is no book
CSU_Skip ==
    /\ pc = "csu_items"
    /\ item_idx <= Len(items)
    /\ items[item_idx].item_type # Str(BOOK)
    /\ item_idx' = item_idx + 1
    /\ UNCHANGED <<pc, entry, all_items, items, categorizer_func, shelf_usage, shelf_idx,
                   over_capacity, status_class>>

\* lines 188-194 and 204: the categorizer raises (AttributeError), or names a
\* shelf or row that shelf_usage does not hold (KeyError); nothing catches it
CSU_Raises ==
    /\ pc = "csu_items"
    /\ item_idx <= Len(items)
    /\ items[item_idx].item_type = Str(BOOK)
    /\ ~Addressable(DestinationOf(items[item_idx]))
    /\ pc' = "raised"
    /\ UNCHANGED spaceVars

\* line 186: the loop over the items ends
CSU_ItemsDone ==
    /\ pc = "csu_items"
    /\ item_idx > Len(items)
    /\ shelf_idx' = 1
    /\ pc' = "csu_total"
    /\ UNCHANGED <<entry, all_items, items, categorizer_func, item_idx, shelf_usage,
                   over_capacity, status_class>>

\* lines 214-217 with the utilization cut off at 100
CSU_Total_Capped ==
    /\ pc = "csu_total"
    /\ shelf_idx <= Len(ShelfOrder)
    /\ LET s == ShelfOrder[shelf_idx]
           total_width == RowWidthSum(shelf_usage[s].rows, SHELF_DIMENSIONS[s].rows)
           u == Fraction(total_width * 100, 4 * shelf_usage[s].available_width)
       IN  shelf_usage' =
               [shelf_usage EXCEPT ![s].total_width = total_width,
                                   ![s].utilization =
                                       IF Above(u, 100) THEN Fraction(100, 1) ELSE u]
    /\ shelf_idx' = shelf_idx + 1
    /\ UNCHANGED <<pc, entry, all_items, items, categorizer_func, item_idx, over_capacity,
                   status_class>>

\* lines 214-217: one shelf; total_width is in quarter inches, available_width
\* in inches
CSU_Total ==
    /\ pc = "csu_total"
    /\ shelf_idx <= Len(ShelfOrder)
    /\ LET s == ShelfOrder[shelf_idx]
           total_width == RowWidthSum(shelf_usage[s].rows, SHELF_DIMENSIONS[s].rows)
       IN  shelf_usage' =
               [shelf_usage EXCEPT ![s].total_width = total_width,
                                   ![s].utilization =
                                       Fraction(total_width * 100,
                                                4 * shelf_usage[s].available_width)]
    /\ shelf_idx' = shelf_idx + 1
    /\ UNCHANGED <<pc, entry, all_items, items, categorizer_func, item_idx, over_capacity,
                   status_class>>

\* line 219: return shelf_usage
CSU_Return ==
    /\ pc = "csu_total"
    /\ shelf_idx > Len(ShelfOrder)
    /\ pc' = IF entry = "main" THEN "balance" ELSE "done"
    /\ UNCHANGED spaceVars

\* iterative_balance, lines 377-390
IterativeBalance_Report ==
    /\ pc = "balance"
    /\ over_capacity' =
           SelectSeq(ShelfOrder, LAMBDA s : Above(shelf_usage[s].utilization, 100))
    /\ pc' = "html"
    /\ UNCHANGED <<entry, all_items, items, categorizer_func, item_idx, shelf_usage,
                   shelf_idx, status_class>>

\* generate_html, lines 443-451, with the threshold of iterative_balance
\* (line 381) for "over capacity"
StatusClass_Over100(utilization) ==
    IF Above(utilization, 100) THEN "over-capacity"
    ELSE IF Above(utilization, 75) THEN "near-capacity"
    ELSE "good-capacity"

\* generate_html, lines 443-451
StatusClass(utilization) ==
    IF Above(utilization, 90) THEN "over-capacity"
    ELSE IF Above(utilization, 75) THEN "near-capacity"
    ELSE "good-capacity"

\* generate_html, lines 439-462: the banner of every shelf
GenerateHtml_Banner ==
    /\ pc = "html"
    /\ status_class' =
           [s \in DOMAIN SHELF_DIMENSIONS |-> StatusClass(shelf_usage[s].utilization)]
    /\ pc' = "banner_done"
    /\ UNCHANGED <<entry, all_items, items, categorizer_func, item_idx, shelf_usage,
                   shelf_idx, over_capacity>>

Next ==
    \/ (Main_Books /\ UNCHANGED notSpace)
    \/ (CSU_Call /\ UNCHANGED notSpace)
    \/ (CSU_InitShelves /\ UNCHANGED notSpace)
    \/ (CSU_Book /\ UNCHANGED notSpace)
    \/ (CSU_Skip /\ UNCHANGED notSpace)
    \/ (CSU_Raises /\ UNCHANGED notSpace)
    \/ (CSU_ItemsDone /\ UNCHANGED notSpace)
    \/ (CSU_Total /\ UNCHANGED notSpace)
    \/ (CSU_Return /\ UNCHANGED notSpace)
    \/ (IterativeBalance_Report /\ UNCHANGED notSpace)
    \/ (GenerateHtml_Banner /\ UNCHANGED notSpace)

Spec == SpaceInit /\ [][Next]_vars

---------------------------------------------------------------------------
(* main's loop over the CSV files, and parse_csv_file. A file is the rows   *)
(* its reader yields when nothing goes wrong; opening the file and reading *)
(* each further row may raise (OSError, UnicodeDecodeError, csv.Error).    *)

\* A row of a file that has no item_type column
UntypedRow(title) == [title |-> title, length |-> Str(<<>>)]

\* The files the loop is tried with
FilePool ==
    { << Row(Str(BOOK), Str(<<"G","e","n","k","i"," ","I">>), Str(<<"2","5","0">>)),
         Row(Str(<<"d","v","d">>), Str(<<"A","l","i","e","n">>), Str(<<>>)),
         Row(Str(MUSIC), Str(<<"A","b","b","e","y"," ","R","o","a","d">>), Str(<<>>)) >>,
      << Row(Str(VIDEOGAME), Str(<<"C","h","e","s","s">>), Str(<<>>)),
         Row(Str(<<"B","o","o","k">>), Str(<<"P","l","a","i","n">>), Str(<<>>)) >>,
      << Row(NoneStr, NoneStr, NoneStr),
         Row(Str(BOOK), Str(<<"W","a","r","r","a","n","t","y"," ","G","u","i","d","e">>), Str(<<"2","5","0">>)) >>,
      << UntypedRow(Str(<<"A","l","i","e","n">>)), UntypedRow(Str(<<"G","e","n","k","i"," ","I">>)) >>,
      << >> }

MaxFiles == 2

\* line 160: row.get('item_type') in ['book', 'videogame', 'music']
Recognized(row) ==
    Get(row, "item_type", NoneStr) \in {Str(BOOK), Str(VIDEOGAME), Str(MUSIC)}

IngestInit ==
    /\ pc = "ingest_loop"
    /\ csv_files \in UNION {[1..n -> FilePool] : n \in 0..MaxFiles}
    /\ file_idx = 1
    /\ row_pos = 0
    /\ parsed_items = <<>>
    /\ returned = <<>>
    /\ error_log = <<>>
    /\ entry = "main"
    /\ all_items = <<>>
    /\ items = <<>>
    /\ categorizer_func = "None"
    /\ item_idx = 0
    /\ shelf_usage = <<>>
    /\ shelf_idx = 0
    /\ over_capacity = <<>>
    /\ status_class = <<>>
    /\ IdleWidth
    /\ IdleShot
    /\ IdleCat

\* main, lines 553-555, and parse_csv_file, line 152: items = []
Ingest_NextFile ==
    /\ pc = "ingest_loop"
    /\ file_idx <= Len(csv_files)
    /\ parsed_items' = <<>>
    /\ row_pos' = 0
    /\ pc' = "parse_open"
    /\ UNCHANGED <<csv_files, file_idx, returned, error_log, all_items>>

\* lines 155-157: the file opens
Parse_Open_Ok ==
    /\ pc = "parse_open"
    /\ pc' = "parse_rows"
    /\ UNCHANGED <<ingestVars, all_items>>

\* line 155: open raises
Parse_Open_Raises ==
    /\ pc = "parse_open"
    /\ pc' = "parse_except"
    /\ UNCHANGED <<ingestVars, all_items>>

\* lines 159-161 with insert(0, row) for append(row)
Parse_Row_Kept_First ==
    /\ pc = "parse_rows"
    /\ row_pos < Len(csv_files[file_idx])
    /\ Recognized(csv_files[file_idx][row_pos + 1])
    /\ parsed_items' = <<csv_files[file_idx][row_pos + 1]>> \o parsed_items
    /\ row_pos' = row_pos + 1
    /\ UNCHANGED <<pc, csv_files, file_idx, returned, error_log, all_items>>

\* lines 159-161: a row of a recognized kind
Parse_Row_Kept ==
    /\ pc = "parse_rows"
    /\ row_pos < Len(csv_files[file_idx])
    /\ Recognized(csv_files[file_idx][row_pos + 1])
    /\ parsed_items' = Append(parsed_items, csv_files[file_idx][row_pos + 1])
    /\ row_pos' = row_pos + 1
    /\ UNCHANGED <<pc, csv_files, file_idx, returned, error_log, all_items>>

\* lines 159-160: a row of another kind, or of none
Parse_Row_Skipped ==
    /\ pc = "parse_rows"
    /\ row_pos < Len(csv_files[file_idx])
    /\ ~Recognized(csv_files[file_idx][row_pos + 1])
    /\ row_pos' = row_pos + 1
    /\ UNCHANGED <<pc, csv_files, file_idx, parsed_items, returned, error_log, all_items>>

\* line 159: the reader raises instead of yielding its next row (or the end)
Parse_Row_Raises ==
    /\ pc = "parse_rows"
    /\ pc' = "parse_except"
    /\ UNCHANGED <<ingestVars, all_items>>

\* line 159: the reader is exhausted
Parse_Rows_End ==
    /\ pc = "parse_rows"
    /\ row_pos = Len(csv_files[file_idx])
    /\ pc' = "parse_return"
    /\ UNCHANGED <<ingestVars, all_items>>

\* lines 163-164: except Exception: print
Parse_Except ==
    /\ pc = "parse_except"
    /\ error_log' = Append(error_log, file_idx)
    /\ pc' = "parse_return"
    /\ UNCHANGED <<csv_files, file_idx, row_pos, parsed_items, returned, all_items>>

\* line 166: return items; main, lines 555-557: all_items.extend(items)
Parse_Return ==
    /\ pc = "parse_return"
    /\ returned' = Append(returned, parsed_items)
    /\ all_items' = all_items \o parsed_items
    /\ file_idx' = file_idx + 1
    /\ pc' = "ingest_loop"
    /\ UNCHANGED <<csv_files, row_pos, parsed_items, error_log>>

\* main, line 553: the loop over the files ends
Ingest_Done ==
    /\ pc = "ingest_loop"
    /\ file_idx > Len(csv_files)
    /\ pc' = "ingested"
    /\ UNCHANGED <<ingestVars, all_items>>

IngestNext ==
    \/ (Ingest_NextFile /\ UNCHANGED notIngest)
    \/ (Parse_Open_Ok /\ UNCHANGED notIngest)
    \/ (Parse_Open_Raises /\ UNCHANGED notIngest)
    \/ (Parse_Row_Kept /\ UNCHANGED notIngest)
    \/ (Parse_Row_Skipped /\ UNCHANGED notIngest)
    \/ (Parse_Row_Raises /\ UNCHANGED notIngest)
    \/ (Parse_Rows_End /\ UNCHANGED notIngest)
    \/ (Parse_Except /\ UNCHANGED notIngest)
    \/ (Parse_Return /\ UNCHANGED notIngest)
    \/ (Ingest_Done /\ UNCHANGED notIngest)

SpecIngest == IngestInit /\ [][IngestNext]_vars

---------------------------------------------------------------------------
(* selenium-screenshot.py: main and capture_screenshot.                    *)
(* The browser, the network and the file system decide the outcome of each *)
(* call the script makes; every outcome a call has is an action. Exceptions *)
(* are those deriving from Exception, which the except clause catches.     *)

MaxArgc == 5
DEFAULT_WAIT == 20

\* What sys.argv[3] is tried with.
WaitArgs == { <<"0">>, <<"2">>, <<"-","1">>, <<" ","3"," ">>, <<"s","o","o","n">>, <<"1",".","5">> }

ShotInit ==
    /\ pc = "shot_main"
    /\ argv \in [argc : 1..MaxArgc, wait : {Str(w) : w \in WaitArgs} \cup {NoneStr}]
    /\ (argv.argc > 3) = ~argv.wait.isNone
    /\ wait_seconds = 0
    /\ driver = "None"
    /\ browser_open = FALSE
    /\ file_written = FALSE
    /\ success = "unset"
    /\ exit_code = Unset
    /\ trace = <<>>
    /\ slept = Unset
    /\ IdleWidth
    /\ IdleCat
    /\ IdleSpace
    /\ IdleIngest

\* main, lines 65-67: too few arguments
Main_Usage ==
    /\ pc = "shot_main"
    /\ argv.argc < 3
    /\ exit_code' = 1
    /\ pc' = "exited"
    /\ UNCHANGED <<argv, slept, wait_seconds, driver, browser_open, file_written, success, trace>>

\* main, line 71: int(sys.argv[3]) raises ValueError, which nothing catches
Main_BadWait ==
    /\ pc = "shot_main"
    /\ argv.argc > 3
    /\ ~ParseInt(argv.wait.s).ok
    /\ exit_code' = 1
    /\ pc' = "exited"
    /\ UNCHANGED <<argv, slept, wait_seconds, driver, browser_open, file_written, success, trace>>

\* main, lines 69-74: the call of capture_screenshot; line 31, driver = None
Main_Call ==
    /\ pc = "shot_main"
    /\ argv.argc >= 3
    /\ argv.argc > 3 => ParseInt(argv.wait.s).ok
    /\ wait_seconds' = IF argv.argc > 3 THEN ParseInt(argv.wait.s).n ELSE DEFAULT_WAIT
    /\ driver' = "None"
    /\ pc' = "create"
    /\ UNCHANGED <<argv, slept, browser_open, file_written, success, exit_code, trace>>

\* line 34: webdriver.Chrome(options=chrome_options)
Create_Ok ==
    /\ pc = "create"
    /\ driver' = "session"
    /\ browser_open' = TRUE
    /\ trace' = Append(trace, "create")
    /\ pc' = "get"
    /\ UNCHANGED <<argv, slept, wait_seconds, file_written, success, exit_code>>

Create_Raises ==
    /\ pc = "create"
    /\ pc' = "except"
    /\ UNCHANGED <<argv, slept, wait_seconds, driver, browser_open, file_written, success,
                   exit_code, trace>>

\* line 38: driver.get(url)
Get_Ok ==
    /\ pc = "get"
    /\ trace' = Append(trace, "get")
    /\ pc' = "ready"
    /\ UNCHANGED <<argv, slept, wait_seconds, driver, browser_open, file_written, success,
                   exit_code>>

Get_Raises ==
    /\ pc = "get"
    /\ pc' = "except"
    /\ UNCHANGED <<argv, slept, wait_seconds, driver, browser_open, file_written, success,
                   exit_code, trace>>

\* lines 41-43: WebDriverWait(driver, 10).until(readyState == "complete")
Ready_Ok ==
    /\ pc = "ready"
    /\ trace' = Append(trace, "ready")
    /\ pc' = "sleep"
    /\ UNCHANGED <<argv, slept, wait_seconds, driver, browser_open, file_written, success,
                   exit_code>>

\* The TimeoutException of the readiness wait caught on the spot and passed
\* over, the capture going on with the render wait
Ready_Timeout_Ignored ==
    /\ pc = "ready"
    /\ pc' = "sleep"
    /\ UNCHANGED <<argv, slept, wait_seconds, driver, browser_open, file_written, success,
                   exit_code, trace>>

\* lines 41-43: until() raises TimeoutException after 10 seconds
Ready_Timeout ==
    /\ pc = "ready"
    /\ pc' = "except"
    /\ UNCHANGED <<argv, slept, wait_seconds, driver, browser_open, file_written, success,
                   exit_code, trace>>

\* line 48: time.sleep(wait_seconds), which raises ValueError on a negative length
Sleep_Ok ==
    /\ pc = "sleep"
    /\ wait_seconds >= 0
    /\ slept' = wait_seconds
    /\ trace' = Append(trace, "sleep")
    /\ pc' = "save"
    /\ UNCHANGED <<argv, wait_seconds, driver, browser_open, file_written, success,
                   exit_code>>

Sleep_Raises ==
    /\ pc = "sleep"
    /\ wait_seconds < 0
    /\ pc' = "except"
    /\ UNCHANGED <<argv, slept, wait_seconds, driver, browser_open, file_written, success,
                   exit_code, trace>>

\* lines 51-54: driver.save_screenshot(output_path) writes the file; return True
Save_Written ==
    /\ pc = "save"
    /\ file_written' = TRUE
    /\ trace' = Append(trace, "screenshot")
    /\ success' = "True"
    /\ pc' = "finally"
    /\ UNCHANGED <<argv, slept, wait_seconds, driver, browser_open, exit_code>>

\* lines 51-54: save_screenshot could not write the file (an IOError, which
\* WebDriver.save_screenshot reports by returning False); the value returned
\* is not looked at; return True
Save_NotWritten ==
    /\ pc = "save"
    /\ trace' = Append(trace, "screenshot")
    /\ success' = "True"
    /\ pc' = "finally"
    /\ UNCHANGED <<argv, slept, wait_seconds, driver, browser_open, file_written, exit_code>>

\* line 51: save_screenshot raises (the browser could not render the image)
Save_Raises ==
    /\ pc = "save"
    /\ pc' = "except"
    /\ UNCHANGED <<argv, slept, wait_seconds, driver, browser_open, file_written, success,
                   exit_code, trace>>

\* lines 56-58: except Exception: return False
Except ==
    /\ pc = "except"
    /\ success' = "False"
    /\ pc' = "finally"
    /\ UNCHANGED <<argv, slept, wait_seconds, driver, browser_open, file_written, exit_code,
                   trace>>

\* driver.quit() placed after the screenshot, in the try block
Finally_OnSuccessOnly ==
    /\ pc = "finally"
    /\ IF driver # "None" /\ success = "True"
       THEN /\ browser_open' = FALSE
            /\ trace' = Append(trace, "quit")
       ELSE UNCHANGED <<browser_open, trace>>
    /\ pc' = "returned"
    /\ UNCHANGED <<argv, slept, wait_seconds, driver, file_written, success, exit_code>>

\* lines 60-62: finally: if driver: driver.quit()
Finally ==
    /\ pc = "finally"
    /\ IF driver # "None"
       THEN /\ browser_open' = FALSE
            /\ trace' = Append(trace, "quit")
       ELSE UNCHANGED <<browser_open, trace>>
    /\ pc' = "returned"
    /\ UNCHANGED <<argv, slept, wait_seconds, driver, file_written, success, exit_code>>

\* line 75: sys.exit(0 if success else 1)
Main_Exit ==
    /\ pc = "returned"
    /\ exit_code' = IF success = "True" THEN 0 ELSE 1
    /\ pc' = "exited"
    /\ UNCHANGED <<argv, slept, wait_seconds, driver, browser_open, file_written, success, trace>>

ShotNext ==
    \/ (Main_Usage /\ UNCHANGED notShot)
    \/ (Main_BadWait /\ UNCHANGED notShot)
    \/ (Main_Call /\ UNCHANGED notShot)
    \/ (Create_Ok /\ UNCHANGED notShot)
    \/ (Create_Raises /\ UNCHANGED notShot)
    \/ (Get_Ok /\ UNCHANGED notShot)
    \/ (Get_Raises /\ UNCHANGED notShot)
    \/ (Ready_Ok /\ UNCHANGED notShot)
    \/ (Ready_Timeout /\ UNCHANGED notShot)
    \/ (Sleep_Ok /\ UNCHANGED notShot)
    \/ (Sleep_Raises /\ UNCHANGED notShot)
    \/ (Save_Written /\ UNCHANGED notShot)
    \/ (Save_NotWritten /\ UNCHANGED notShot)
    \/ (Save_Raises /\ UNCHANGED notShot)
    \/ (Except /\ UNCHANGED notShot)
    \/ (Finally /\ UNCHANGED notShot)
    \/ (Main_Exit /\ UNCHANGED notShot)

SpecShot == ShotInit /\ [][ShotNext]_vars

---------------------------------------------------------------------------
(* C4: estimate_book_width follows the table of the specification: absent  *)
(* or p <= 0 gives 1.0; 1..100 gives 0.5; 101..200 gives 0.75; 201..300    *)
(* gives 1.0; 301..500 gives 1.25; 501..750 gives 1.5; above 750 gives     *)
(* 2.0 (in quarter inches: 4, 2, 3, 4, 5, 6, 8), each upper boundary       *)
(* belonging to the lower band.                                            *)
C4_WidthTable ==
    << [lo |-> 1,   hi |-> 100, w |-> 2],
       [lo |-> 101, hi |-> 200, w |-> 3],
       [lo |-> 201, hi |-> 300, w |-> 4],
       [lo |-> 301, hi |-> 500, w |-> 5],
       [lo |-> 501, hi |-> 750, w |-> 6] >>

C4_WidthMatchesTable ==
    pc = "width_done" =>
        /\ (pages.isNone \/ pages.n <= 0) => width = 4
        /\ \A k \in 1..Len(C4_WidthTable) :
              (~pages.isNone /\ C4_WidthTable[k].lo <= pages.n /\ pages.n <= C4_WidthTable[k].hi)
                  => width = C4_WidthTable[k].w
        /\ (~pages.isNone /\ pages.n > 750) => width = 8

\* The call was made on an upper boundary, which fell in the lower band.
C4_Witness ==
    /\ pc = "width_done"
    /\ ~pages.isNone
    /\ pages.n = 750
    /\ width = 6

(* C5, as claimed: for all page counts p <= q, zero and negative values    *)
(* included, the width of p is at most the width of q.                     *)
C5_WidthMonotoneEverywhere ==
    pc = "pair_done" => (pages.n <= pages_q.n => width <= width_q)

(* C5, amended: for all page counts 1 <= p <= q the width of p is at most  *)
(* the width of q. (A page count <= 0 is "unknown" and gets the default    *)
(* 1.0, which is more than the 0.5 and 0.75 of the thinnest known books.)  *)
C5_WidthMonotonePositive ==
    pc = "pair_done" =>
        ((1 <= pages.n /\ pages.n <= pages_q.n) => width <= width_q)

\* Two positive page counts on either side of a band boundary were compared.
C5_Witness ==
    /\ pc = "pair_done"
    /\ pages.n = 500
    /\ pages_q.n = 501
    /\ width < width_q

(* C2: on every exit path of capture_screenshot (success, navigation       *)
(* error, readiness timeout, screenshot error) a browser session that was  *)
(* created has been released by driver.quit() before the function         *)
(* returns: no path returns with a created session still open.            *)
C2_SessionReleasedOnReturn ==
    pc \in {"returned", "exited"} =>
        /\ ~browser_open
        /\ driver = "session" =>
              /\ Len(trace) > 0
              /\ trace[Len(trace)] = "quit"
              /\ Cardinality({k \in 1..Len(trace) : trace[k] = "quit"}) = 1

\* The capture failed after the session was created (here at the readiness
\* wait, with a wait of 0 seconds), and the function has returned False.
C2_Witness ==
    /\ pc = "returned"
    /\ success = "False"
    /\ driver = "session"
    /\ wait_seconds = 0
    /\ trace = <<"create", "get", "quit">>

(* C3: the process exits with code 0 exactly when the screenshot was       *)
(* written, and with code 1 on any capture failure (driver construction,   *)
(* navigation, readiness timeout, screenshot); a failure inside the        *)
(* capture is returned as False.                                           *)
C3_ExitCodeTellsScreenshot ==
    pc = "exited" =>
        /\ (exit_code = 0) = file_written
        /\ (success # "unset" /\ ~file_written) => (success = "False" /\ exit_code = 1)

\* The part of C3 that the code keeps: a failure that raises is returned as
\* False and exits with 1, and exit code 0 is given only after a return of True.
C3_RaisedFailureExitsOne ==
    pc = "exited" =>
        /\ success = "False" => (exit_code = 1 /\ ~file_written)
        /\ exit_code = 0 => success = "True"
        /\ file_written => exit_code = 0

(* C6: categorize_book returns the destination of the first rule, in       *)
(* source order, whose keyword predicate holds on the lowercase            *)
(* concatenation of title, tags, group and description (absent fields      *)
(* taken as empty strings, matching by substring containment), whether or  *)
(* not later rules match too; when no rule matches it returns              *)
(* (crate_h, 1).                                                           *)
C6_Text(x) == IF x.isNone THEN <<>> ELSE Lower(x.s)

C6_Combined(a) ==
    C6_Text(a.title) \o <<" ">> \o C6_Text(a.tags) \o <<" ">>
        \o C6_Text(a.group) \o <<" ">> \o C6_Text(a.description)

\* The ordered table of (predicate, destination)
C6_Matches(k, c) ==
    CASE k = 1 -> AnyIn(CORE_LANGUAGE, c)
      [] k = 2 -> AnyIn(MATH_CS, c)
      [] k = 3 -> AnyIn(CORE_SCIENCE, c) /\ Contains(c, <<"t","e","x","t","b","o","o","k">>)
      [] k = 4 -> AnyIn(CORE_PHILOSOPHY, c)
      [] k = 5 -> AnyIn(PROFESSIONAL, c)
      [] k = 6 -> AnyIn(LANGUAGES, c) /\ ~Contains(c, <<"c","o","o","k","i","n","g">>)
      [] k = 7 -> AnyIn(HISTORY, c)
      [] k = 8 -> AnyIn(LITERATURE, c)
      [] k = 9 -> AnyIn(MATH_REFERENCE, c)
      [] k = 10 -> AnyIn(GAMES, c)
      [] k = 11 -> AnyIn(PHILOSOPHY, c)
      [] k = 12 -> AnyIn(ACADEMIC, c)
      [] k = 13 -> AnyIn(ESSAYS, c)
      [] k = 14 -> AnyIn(COOKING, c)

C6_Destination(k, c) ==
    CASE k = 1 -> Dest("office_a", 1)
      [] k = 2 -> Dest("office_a", 2)
      [] k = 3 -> Dest("office_a", 3)
      [] k = 4 -> Dest("office_a", 4)
      [] k = 5 -> Dest("office_a", 5)
      [] k = 6 -> LanguageRow(c)
      [] k = 7 -> Dest("hallway", 1)
      [] k = 8 -> Dest("hallway", 2)
      [] k = 9 -> Dest("crate_v", 1)
      [] k = 10 -> Dest("office_b", 4)
      [] k = 11 -> Dest("office_b", 1)
      [] k = 12 -> Dest("office_b", 2)
      [] k = 13 -> Dest("office_b", 3)
      [] k = 14 -> CookingRow(c)

C6_FirstMatch(c) ==
    LET hits == {k \in 1..14 : C6_Matches(k, c)}
    IN  IF hits = {} THEN Dest("crate_h", 1)
        ELSE C6_Destination(CHOOSE k \in hits : \A j \in hits : k <= j, c)

C6_FirstMatchWins ==
    (pc \in {"cat_done", "cat_raised"} /\ cat_args.func = "categorize_book")
        => cat_result = C6_FirstMatch(C6_Combined(cat_args))

\* The part of C6 that the code keeps: whenever the title is a string.
C6_FirstMatchWinsGivenTitle ==
    (pc \in {"cat_done", "cat_raised"} /\ cat_args.func = "categorize_book"
        /\ ~cat_args.title.isNone)
        => cat_result = C6_FirstMatch(C6_Combined(cat_args))

(* C1: after calculate_space_usage has run over a list of items, every     *)
(* item of kind 'book' is in the item list of exactly one (shelf, row)     *)
(* pair (none lost, none duplicated), and the per-row widths of all        *)
(* shelves add up to the sum of estimate_book_width over those books.      *)
C1_Places ==
    UNION { UNION { {<<s, r, k>> : k \in 1..Len(shelf_usage[s].rows[r].items)}
                    : r \in 1..SHELF_DIMENSIONS[s].rows }
            : s \in DOMAIN SHELF_DIMENSIONS }

C1_Placed(p) == shelf_usage[p[1]].rows[p[2]].items[p[3]]

RECURSIVE C1_AllRowsWidth(_)
C1_AllRowsWidth(n) ==
    IF n = 0 THEN 0
    ELSE RowWidthSum(shelf_usage[ShelfOrder[n]].rows, SHELF_DIMENSIONS[ShelfOrder[n]].rows)
             + C1_AllRowsWidth(n - 1)

RECURSIVE C1_BooksWidth(_)
C1_BooksWidth(n) ==
    IF n = 0 THEN 0
    ELSE (IF items[n].item_type = Str(BOOK)
              THEN estimate_book_width(Int_(PagesOf(items[n]))) ELSE 0)
             + C1_BooksWidth(n - 1)

\* The books among the first n items are each placed once, nothing else is
\* placed, and the widths add up.
C1_Accounted(n) ==
    /\ \A idx \in 1..n :
           items[idx].item_type = Str(BOOK)
               => Cardinality({p \in C1_Places : C1_Placed(p).item = idx}) = 1
    /\ \A p \in C1_Places :
           /\ C1_Placed(p).item \in 1..n
           /\ items[C1_Placed(p).item].item_type = Str(BOOK)
    /\ C1_AllRowsWidth(Len(ShelfOrder)) = C1_BooksWidth(n)

C1_EveryBookPlacedOnce ==
    pc \in {"csu_total", "done", "balance", "html", "banner_done", "raised"}
        => C1_Accounted(Len(items))

\* The part of C1 that the code keeps: the books gone through so far are
\* accounted for at every step, and those are all the books when the
\* function returns.
C1_ProcessedBooksPlacedOnce ==
    /\ pc \in {"csu_items", "raised"} => C1_Accounted(item_idx - 1)
    /\ pc \in {"csu_total", "done", "balance", "html", "banner_done"}
           => (item_idx = Len(items) + 1 /\ C1_Accounted(Len(items)))

(* C7: for every shelf, the utilization calculate_space_usage computes is  *)
(* (sum of the shelf's row widths) / (row count * row width) * 100; it is  *)
(* not capped at 100, and a utilization above 100 raises no error and does *)
(* not stop processing (hallway with 40 inches against 32 yields 125.0).   *)
C7_IsUtilizationOf(s) ==
    LET u == shelf_usage[s].utilization
        row_widths == RowWidthSum(shelf_usage[s].rows, SHELF_DIMENSIONS[s].rows)
        capacity == 4 * SHELF_DIMENSIONS[s].rows * SHELF_DIMENSIONS[s].width
    IN  /\ u.den > 0
        /\ u.num * capacity = 100 * row_widths * u.den

C7_UtilizationFormula ==
    /\ pc = "csu_total" => \A k \in 1..(shelf_idx - 1) : C7_IsUtilizationOf(ShelfOrder[k])
    /\ pc \in {"done", "balance", "html", "banner_done"}
           => \A s \in DOMAIN SHELF_DIMENSIONS : C7_IsUtilizationOf(s)

\* calculate_space_usage has returned with 40 inches on the hallway shelf:
\* its utilization is 125, and the shelves after it were computed too.
C7_Witness ==
    /\ pc = "done"
    /\ RowWidthSum(shelf_usage["hallway"].rows, 2) = 4 * 40
    /\ shelf_usage["hallway"].utilization.num = 125 * shelf_usage["hallway"].utilization.den
    /\ shelf_idx = Len(ShelfOrder) + 1

(* C8: in the report each shelf's banner is in exactly one of three bands:  *)
(* utilization > 90 is over capacity, otherwise utilization > 75 is near   *)
(* capacity, otherwise good capacity; a shelf at 125% is over capacity.    *)
C8_PercentAbove(s, k) ==
    100 * RowWidthSum(shelf_usage[s].rows, SHELF_DIMENSIONS[s].rows)
        > k * 4 * SHELF_DIMENSIONS[s].rows * SHELF_DIMENSIONS[s].width

C8_BannerBands ==
    pc = "banner_done" =>
        \A s \in DOMAIN SHELF_DIMENSIONS :
            /\ status_class[s] \in {"over-capacity", "near-capacity", "good-capacity"}
            /\ (status_class[s] = "over-capacity") = C8_PercentAbove(s, 90)
            /\ (status_class[s] = "near-capacity")
                   = (~C8_PercentAbove(s, 90) /\ C8_PercentAbove(s, 75))
            /\ (status_class[s] = "good-capacity") = ~C8_PercentAbove(s, 75)

\* The report of a collection that puts 40 inches on the hallway shelf
\* (125%) shows the hallway over capacity.
C8_Witness ==
    /\ pc = "banner_done"
    /\ shelf_usage["hallway"].total_width = 4 * 40
    /\ shelf_usage["hallway"].utilization.num = 125 * shelf_usage["hallway"].utilization.den
    /\ status_class["hallway"] = "over-capacity"

(* C9: when reading a source file fails at any point (at open or part-way  *)
(* through its rows), parse_csv_file contributes zero records for that     *)
(* file and logs an error, and main goes on to every remaining file: one   *)
(* file's failure never aborts the others nor leaves partial records of    *)
(* the failed file in the result.                                          *)
C9_Failed(k) == \E j \in 1..Len(error_log) : error_log[j] = k

RECURSIVE C9_Concat(_, _)
C9_Concat(lists, n) == IF n = 0 THEN <<>> ELSE C9_Concat(lists, n - 1) \o lists[n]

C9_FailedFileContributesNothing ==
    /\ \A k \in 1..Len(returned) : C9_Failed(k) => returned[k] = <<>>
    /\ pc = "ingested" =>
           /\ Len(returned) = Len(csv_files)
           /\ all_items = C9_Concat(returned, Len(returned))

\* The part of C9 that the code keeps: a failure is logged once, and every
\* file is gone through whatever happened to the files before it.
C9_FailureNeverAborts ==
    /\ \A k \in 1..Len(returned) :
           Cardinality({j \in 1..Len(error_log) : error_log[j] = k}) <= 1
    /\ pc = "parse_except" => ~C9_Failed(file_idx)
    /\ pc = "ingested" =>
           /\ Len(returned) = Len(csv_files)
           /\ all_items = C9_Concat(returned, Len(returned))

(* C10: parse_csv_file returns, in row order, exactly the rows of the file *)
(* whose item kind is one of book, videogame or music; rows of any other   *)
(* kind, or of none, are skipped, and no kept row is dropped or reordered. *)
C10_IsKind(row, kind) == "item_type" \in DOMAIN row /\ row.item_type = Str(kind)

C10_Wanted(rows) ==
    SelectSeq(rows, LAMBDA row : C10_IsKind(row, BOOK) \/ C10_IsKind(row, VIDEOGAME)
                                     \/ C10_IsKind(row, MUSIC))

C10_KeepsRecognizedRowsInOrder ==
    /\ pc \in {"parse_rows", "parse_except", "parse_return"} =>
           parsed_items = C10_Wanted(SubSeq(csv_files[file_idx], 1, row_pos))
    /\ \A k \in 1..Len(returned) :
           ~C9_Failed(k) => returned[k] = C10_Wanted(csv_files[k])

\* A file of three rows, the middle one of another kind, was read to its
\* end: the first and the third row were returned, in that order.
C10_Witness ==
    /\ Len(returned) >= 1
    /\ ~C9_Failed(1)
    /\ Len(csv_files[1]) = 3
    /\ returned[1] = <<csv_files[1][1], csv_files[1][3]>>

(* C11, as claimed: run through main, a book with title 'Genki I' and 250   *)
(* pages, its other text fields empty, is put on office_a row 1 with an    *)
(* estimated width of 0.75 inches (3 quarter inches).                      *)
C11_Genki == Row(Str(BOOK), Str(<<"G","e","n","k","i"," ","I">>), Str(<<"2","5","0">>))

\* Every item equal to `book` that the loop has gone through is recorded once,
\* on (shelf, row), with the page count `page_count` and the width w.
C11_RecordedAt(book, shelf, row, page_count, w) ==
    \A idx \in 1..Len(items) :
        (items[idx] = book /\ idx < item_idx) =>
            \E p \in C1_Places :
                /\ C1_Placed(p).item = idx
                /\ p[1] = shelf
                /\ p[2] = row
                /\ C1_Placed(p).pages = page_count
                /\ C1_Placed(p).width = w

C11_GenkiThreeQuarterInch ==
    entry = "main" => C11_RecordedAt(C11_Genki, "office_a", 1, 250, 3)

(* C11, amended: run through main, a book with title 'Genki I' and 250     *)
(* pages, its other text fields empty, is put on office_a row 1 with an    *)
(* estimated width of 1.0 inch (4 quarter inches).                         *)
C11_GenkiOneInch ==
    entry = "main" => C11_RecordedAt(C11_Genki, "office_a", 1, 250, 4)

\* main has run to the report over a collection that holds 'Genki I': the
\* book is the first of office_a row 1, which is one inch wide or more.
C11_Witness ==
    /\ entry = "main"
    /\ pc = "banner_done"
    /\ Len(items) = 2
    /\ items[1] = C11_Genki
    /\ Len(shelf_usage["office_a"].rows[1].items) >= 1
    /\ shelf_usage["office_a"].rows[1].items[1].item = 1
    /\ shelf_usage["office_a"].rows[1].items[1].width = 4
    /\ shelf_usage["office_a"].rows[1].width >= 4

(* C12: run through main (main, iterative_balance, calculate_space_usage), *)
(* a book whose only text is the title 'Unknown Mystery Novel' is put on   *)
(* hallway row 2.                                                          *)
C12_Novel == Row(Str(BOOK), Str(<<"U","n","k","n","o","w","n"," ","M","y","s","t","e","r","y"," ","N","o","v","e","l">>), Str(<<"8","0","0">>))

C12_NovelOnHallwayRowTwo ==
    entry = "main" =>
        \A idx \in 1..Len(items) :
            (items[idx] = C12_Novel /\ idx < item_idx) =>
                \E p \in C1_Places :
                    C1_Placed(p).item = idx /\ p[1] = "hallway" /\ p[2] = 2

\* What the code does with that book: calculate_space_usage called with its
\* default categorizer puts it on hallway row 2, main puts it on hallway row 1.
C12_NovelOnHallwayRowOneFromMain ==
    \A idx \in 1..Len(items) :
        (items[idx] = C12_Novel /\ idx < item_idx) =>
            \E p \in C1_Places :
                /\ C1_Placed(p).item = idx
                /\ p[1] = "hallway"
                /\ p[2] = IF entry = "main" THEN 1 ELSE 2

(* C13: in capture_screenshot the steps happen strictly in the order       *)
(* create session, navigate, readiness wait, render wait of the length     *)
(* the caller gave, screenshot, release. A screenshot is written only      *)
(* after the readiness wait succeeded and the render wait ended; when the  *)
(* readiness wait times out, neither the render wait nor the screenshot    *)
(* happens and the result is False.                                        *)
C13_Steps == <<"create", "get", "ready", "sleep", "screenshot">>

\* The operations performed, the release left out
C13_BeforeRelease ==
    IF trace # <<>> /\ trace[Len(trace)] = "quit"
    THEN SubSeq(trace, 1, Len(trace) - 1)
    ELSE trace

C13_StepsInOrder ==
    /\ Len(C13_BeforeRelease) <= Len(C13_Steps)
    /\ \A k \in 1..Len(C13_BeforeRelease) : C13_BeforeRelease[k] = C13_Steps[k]
    /\ (Len(C13_BeforeRelease) >= 4) = (slept # Unset)
    /\ slept # Unset => slept = wait_seconds
    /\ file_written => Len(C13_BeforeRelease) = 5
    /\ (pc \in {"returned", "exited"} /\ success = "True")
           => trace = C13_Steps \o <<"quit">>
    /\ (pc \in {"returned", "exited"} /\ C13_BeforeRelease = <<"create", "get">>)
           => (success = "False" /\ slept = Unset /\ ~file_written)

\* A capture with a render wait of 2 seconds has returned True: the six steps
\* happened once each, in order, and the sleep was of 2 seconds.
C13_Witness ==
    /\ pc = "returned"
    /\ success = "True"
    /\ file_written
    /\ wait_seconds = 2
    /\ slept = 2
    /\ trace = <<"create", "get", "ready", "sleep", "screenshot", "quit">>

(* C14: in calculate_space_usage a book whose length field is absent,      *)
(* empty or not parseable as an integer is taken to have 0 pages: it is    *)
(* still put on its (shelf, row), adds a width of 1.0 inch (4 quarter      *)
(* inches), and the items after it are gone through without error.         *)
C14_UnknownLength(item) ==
    \/ "length" \notin DOMAIN item
    \/ item.length.isNone
    \/ item.length.s = <<>>
    \/ ~ParseInt(item.length.s).ok

C14_IsUnknownLengthBook(idx) ==
    items[idx].item_type = Str(BOOK) /\ C14_UnknownLength(items[idx])

C14_RecordedAsZeroPages(idx) ==
    \E p \in C1_Places :
        /\ C1_Placed(p).item = idx
        /\ C1_Placed(p).pages = 0
        /\ C1_Placed(p).width = 4

C14_UnknownLengthCountsAsZeroPages ==
    \A idx \in 1..Len(items) :
        /\ (C14_IsUnknownLengthBook(idx) /\ idx < item_idx)
               => C14_RecordedAsZeroPages(idx)
        /\ (C14_IsUnknownLengthBook(idx) /\ idx = item_idx) => pc # "raised"

\* The part of C14 that the code keeps: reading the length never raises. A
\* book of unknown length that the loop has passed is recorded with 0 pages
\* and 1.0 inch, and the loop stops at a book only when its categorizer raised.
C14_LengthNeverRaises ==
    /\ \A idx \in 1..Len(items) :
           (C14_IsUnknownLengthBook(idx) /\ idx < item_idx)
               => C14_RecordedAsZeroPages(idx)
    /\ pc = "raised" => DestinationOf(items[item_idx]) = AttributeError

(* C15: for every input, each categorizer (categorize_book,                *)
(* balanced_categorize_book, and the function create_adaptive_categorizer  *)
(* returns, for any utilization data) returns a pair whose shelf is a key  *)
(* of SHELF_DIMENSIONS and whose row is in 1..rows of that shelf, so the   *)
(* accumulation step of calculate_space_usage never addresses a shelf or   *)
(* a row that was not initialised.                                         *)
C15_ReturnsAddressablePair ==
    /\ pc = "cat_done" => Addressable(cat_result)
    /\ pc = "cat_raised" => (cat_result = AttributeError /\ cat_args.title.isNone)

\* The adaptive categorizer, every shelf it prefers being full, fell back on
\* the least utilized shelf of all and returned its row 1.
C15_Witness ==
    /\ pc = "cat_done"
    /\ cat_args.func = "adaptive_categorize_book"
    /\ cat_args.title = Str(<<"K","A","N","T">>)
    /\ cat_args.tags = Str(<<>>)
    /\ cat_args.group = NoneStr
    /\ cat_args.description = NoneStr
    /\ Len(cat_args.utilization_data) = Len(ShelfOrder)
    /\ ~Below(UtilizationOf(cat_args.utilization_data, "office_a"), 85)
    /\ ~Below(UtilizationOf(cat_args.utilization_data, "office_b"), 85)
    /\ Less(UtilizationOf(cat_args.utilization_data, "crate_v"),
            UtilizationOf(cat_args.utilization_data, "office_a"))
    /\ cat_result = Dest("crate_v", 1)

\* In calculate_space_usage: the row a book is added to is one that lines
\* 175-184 created, and the loop stops at a book only on an AttributeError.
C15_AccumulationAddressesInitialisedRows ==
    (pc = "csu_items" /\ item_idx <= Len(items) /\ items[item_idx].item_type = Str(BOOK))
        => \/ DestinationOf(items[item_idx]) = AttributeError
           \/ /\ DestinationOf(items[item_idx]).shelf \in DOMAIN shelf_usage
              /\ DestinationOf(items[item_idx]).row
                     \in DOMAIN shelf_usage[DestinationOf(items[item_idx]).shelf].rows

=============================================================================
